---- MODULE Spec2Model ----
(***************************************************************************)
(* Model of the recommendation service of recommendations_service.py: the  *)
(* three lookup tables loaded at start-up, RecommendationEngine and its    *)
(* four methods, and the /recommend handler that calls mix_recommendations.*)
(***************************************************************************)
EXTENDS Integers, Sequences, FiniteSets, TLC

\* ---------------------------------------------------------------- bounds
\* rows of the personal and of the similarity table when requests are mixed
MaxTable == 1
\* rows of the popularity table when requests are mixed
MaxPopular == 2
\* rows of the three tables together when requests are mixed
MaxRows == 2
\* rows of the popularity table when it is the only source
MaxFallback == 3
\* rows of the personal table when it is queried alone
MaxPersonal == 3
\* rows of the similarity table when it is queried alone
MaxSimilar == 2
\* seeds given to get_similar_tracks when it is queried alone
MaxSeeds == 2
\* length of online_history
MaxHist == 1
\* largest n_recommendations, n and n_per_track asked
MaxN == 2
\* rows of the three tables together when handlers run concurrently
MaxConcRows == 2

Users  == {"u1", "u2"}
Tracks == {"t1", "t2", "t3"}
Scores == {1, 2}
Workers == {1, 2}

\* the smaller tables and requests of the concurrent specification
ConcUsers  == {"u1"}
ConcTracks == {"t1", "t2"}
ConcScores == {1}

\* n_recommendations is an unvalidated int of the request: negative, zero, positive
NRange == (-1)..MaxN
\* a count of rows asked of one lookup
CountRange == 0..MaxN

\* n_per_track passed by mix_recommendations
N_PER_TRACK == 2

\* ------------------------------------------------------------- utilities
Min(a, b) == IF a < b THEN a ELSE b
Max(a, b) == IF a > b THEN a ELSE b
Range(s) == {s[i] : i \in DOMAIN s}
SeqsUpTo(S, k) == UNION {[1..m -> S] : m \in 0..k}
Perms(k) == {f \in [1..k -> 1..k] : \A i, j \in 1..k : f[i] = f[j] => i = j}

PersonalRows == [user_id : Users, track_id : Tracks, score : Scores]
SimilarRows  == [track_id : Tracks, similar_track_id : Tracks, similarity_score : Scores]
ConcPersonalRows == [user_id : ConcUsers, track_id : ConcTracks, score : ConcScores]
ConcSimilarRows  ==
    [track_id : ConcTracks, similar_track_id : ConcTracks, similarity_score : ConcScores]

VARIABLES
    personal_recs,   \* table: sequence of PersonalRows, in storage order
    similar_tracks,  \* table: sequence of SimilarRows, in storage order
    top_popular,     \* table: the track_id column, in storage order
    tieRank,         \* how this build's quicksort orders rows of equal key
    loaded,          \* the module-level load has run
    call,            \* the last completed call and what it returned
    pc, req, frame, resp  \* concurrent handlers: position, request, locals, response

vars == <<personal_recs, similar_tracks, top_popular, tieRank, loaded, call,
          pc, req, frame, resp>>
tables == <<personal_recs, similar_tracks, top_popular>>

\* ------------------------------------------------------- pandas / python
\* DataFrame.head(n): the first n rows; for n < 0 all rows but the last -n
head(s, n) ==
    IF n >= 0 THEN SubSeq(s, 1, Min(n, Len(s)))
    ELSE SubSeq(s, 1, Max(Len(s) + n, 0))

\* the list returned whole
SliceToAll(s, n) == s

\* list[:n]: the same rule as head
SliceTo(s, n) ==
    IF n >= 0 THEN SubSeq(s, 1, Min(n, Len(s)))
    ELSE SubSeq(s, 1, Max(Len(s) + n, 0))

\* sort_values(col, ascending=False) with the default kind="quicksort": rows of
\* larger key first; rows of equal key in the order the sort kernel leaves
\* them, which is tieRank (the identity permutation is the stable order).
SortValues(S, key) ==
    LET Before(i, j) == \/ key[i] > key[j]
                        \/ key[i] = key[j] /\ tieRank[i] < tieRank[j]
    IN  [k \in 1..Cardinality(S) |->
            CHOOSE i \in S : Cardinality({j \in S : Before(j, i)}) = k - 1]

\* ---------------------------------------------------- RecommendationEngine
get_personal_recommendations(user_id, n) ==
    LET rows == {i \in DOMAIN personal_recs : personal_recs[i].user_id = user_id}
        user_recs == SortValues(rows, [i \in DOMAIN personal_recs |-> personal_recs[i].score])
        ids == [k \in DOMAIN user_recs |-> personal_recs[user_recs[k]].track_id]
    IN  IF Len(user_recs) = 0 THEN <<>> ELSE head(ids, n)

\* the rows of one seed, sorted, cut to n_per_track
SimilarOf(track_id, n_per_track) ==
    LET rows == {i \in DOMAIN similar_tracks : similar_tracks[i].track_id = track_id}
        track_similar == SortValues(rows,
            [i \in DOMAIN similar_tracks |-> similar_tracks[i].similarity_score])
        ids == [k \in DOMAIN track_similar |-> similar_tracks[track_similar[k]].similar_track_id]
    IN  IF Len(track_similar) > 0 THEN head(ids, n_per_track) ELSE <<>>

\* the loop left at the first seed without rows
RECURSIVE get_similar_tracks_stop(_, _)
get_similar_tracks_stop(track_ids, n_per_track) ==
    IF track_ids = <<>> THEN <<>>
    ELSE IF SimilarOf(Head(track_ids), n_per_track) = <<>> THEN <<>>
    ELSE SimilarOf(Head(track_ids), n_per_track)
            \o get_similar_tracks_stop(Tail(track_ids), n_per_track)

RECURSIVE get_similar_tracks(_, _)
get_similar_tracks(track_ids, n_per_track) ==
    IF track_ids = <<>> THEN <<>>
    ELSE SimilarOf(Head(track_ids), n_per_track)
            \o get_similar_tracks(Tail(track_ids), n_per_track)

get_top_popular(n) == head(top_popular, n)

\* similar_online put ahead of personal
PrioritySimilarFirst(personal, similar_online, online_history) ==
    (IF online_history # <<>> THEN similar_online ELSE <<>>) \o personal

\* priority 1 and 2: personal, then similar_online when there is a history
Priority(personal, similar_online, online_history) ==
    personal \o (IF online_history # <<>> THEN similar_online ELSE <<>>)

\* priority 3: the popular tracks not yet in the list, when the list is short
WithPopular(all_recommendations, popular, n_recommendations) ==
    IF Len(all_recommendations) < n_recommendations
    THEN all_recommendations
            \o SelectSeq(popular, LAMBDA t : t \notin Range(all_recommendations))
    ELSE all_recommendations

\* first occurrences, in order
RECURSIVE UniqueFrom(_, _)
UniqueFrom(s, seen) ==
    IF s = <<>> THEN <<>>
    ELSE IF Head(s) \notin seen
         THEN <<Head(s)>> \o UniqueFrom(Tail(s), seen \cup {Head(s)})
         ELSE UniqueFrom(Tail(s), seen)

\* no pass over the list
UniqueKeep(all_recommendations) == all_recommendations

Unique(all_recommendations) == UniqueFrom(all_recommendations, {})

\* the history left in
NotInHistoryKeep(unique_recommendations, online_history) == unique_recommendations

NotInHistory(unique_recommendations, online_history) ==
    SelectSeq(unique_recommendations, LAMBDA t : t \notin Range(online_history))

\* the first test written with "or"
StrategyOr(online_history, personal) ==
    IF online_history # <<>> \/ personal # <<>> THEN "online_history + personal"
    ELSE "top_popular_only"

Strategy(online_history, personal) ==
    IF online_history # <<>> /\ personal # <<>> THEN "online_history + personal"
    ELSE IF online_history # <<>> THEN "online_history + top_popular"
    ELSE IF personal # <<>> THEN "personal_only"
    ELSE "top_popular_only"

mix_recommendations(user_id, online_history, n_recommendations) ==
    LET personal == get_personal_recommendations(user_id, n_recommendations)
        similar_online == get_similar_tracks(online_history, N_PER_TRACK)
        popular == get_top_popular(n_recommendations * 2)
        all_recommendations ==
            WithPopular(Priority(personal, similar_online, online_history),
                        popular, n_recommendations)
        unique_recommendations == Unique(all_recommendations)
        final_recommendations == NotInHistory(unique_recommendations, online_history)
    IN  [list |-> SliceTo(final_recommendations, n_recommendations),
         strategy |-> Strategy(online_history, personal)]

\* ------------------------------------------------------------ the service
NoCall == [op |-> "none", user_id |-> "", track_ids |-> <<>>, n |-> 0,
           list |-> <<>>, strategy |-> ""]
NoFrame == [personal |-> <<>>, similar_online |-> <<>>, popular |-> <<>>,
            all_recommendations |-> <<>>, unique_recommendations |-> <<>>]
NoReq == [user_id |-> "", online_history |-> <<>>, n_recommendations |-> 0]
NoResp == [list |-> <<>>, strategy |-> ""]

Init ==
    /\ personal_recs = <<>>
    /\ similar_tracks = <<>>
    /\ top_popular = <<>>
    /\ tieRank = <<>>
    /\ loaded = FALSE
    /\ call = NoCall
    /\ pc = [w \in Workers |-> "idle"]
    /\ req = [w \in Workers |-> NoReq]
    /\ frame = [w \in Workers |-> NoFrame]
    /\ resp = [w \in Workers |-> NoResp]

\* two rows of one user, or of one seed, carry the same score
HasTie(p, s) ==
    \/ \E i, j \in DOMAIN p :
          i < j /\ p[i].user_id = p[j].user_id /\ p[i].score = p[j].score
    \/ \E i, j \in DOMAIN s :
          i < j /\ s[i].track_id = s[j].track_id
                /\ s[i].similarity_score = s[j].similarity_score

\* load_recommendation_data and the construction of the engine: the tables are
\* drawn from P, S and Q, at most maxTotal rows together (all three are empty
\* when the files cannot be read). The tie order of the sort kernel is fixed
\* with the build; it is only observable when two rows tie, so it is left at
\* the identity otherwise.
LoadFrom(P, S, Q, maxTotal) ==
    /\ ~loaded
    /\ \E p \in P, s \in S, q \in Q :
          /\ Len(p) + Len(s) + Len(q) <= maxTotal
          /\ personal_recs' = p
          /\ similar_tracks' = s
          /\ top_popular' = q
          /\ tieRank' \in Perms(Max(Len(p), Len(s)))
          /\ HasTie(p, s) \/ \A i \in DOMAIN tieRank' : tieRank'[i] = i
    /\ loaded' = TRUE
    /\ UNCHANGED <<call, pc, req, frame, resp>>

Load ==
    LoadFrom(SeqsUpTo(PersonalRows, MaxTable), SeqsUpTo(SimilarRows, MaxTable),
             SeqsUpTo(Tracks, MaxPopular), MaxRows)

\* POST /recommend: the handler calls the engine
Recommend ==
    /\ loaded
    /\ call.op = "none"
    /\ \E u \in Users, h \in SeqsUpTo(Tracks, MaxHist), n \in NRange :
          LET r == mix_recommendations(u, h, n)
          IN  call' = [op |-> "mix", user_id |-> u, track_ids |-> h, n |-> n,
                       list |-> r.list, strategy |-> r.strategy]
    /\ UNCHANGED <<personal_recs, similar_tracks, top_popular, tieRank, loaded,
                   pc, req, frame, resp>>

\* the call returns to its caller (the handler sends the response)
Return ==
    /\ call.op # "none"
    /\ call' = NoCall
    /\ UNCHANGED <<personal_recs, similar_tracks, top_popular, tieRank, loaded,
                   pc, req, frame, resp>>

Next == Load \/ Recommend \/ Return

Spec == Init /\ [][Next]_vars

\* ------------------------------------ requests served from popularity alone
LoadPopular == LoadFrom({<<>>}, {<<>>}, SeqsUpTo(Tracks, MaxFallback), MaxFallback)

NextFallback == LoadPopular \/ Recommend \/ Return

SpecFallback == Init /\ [][NextFallback]_vars

\* ------------------------------------------ the lookups called on their own
LoadPersonal ==
    LoadFrom(SeqsUpTo(PersonalRows, MaxPersonal), {<<>>}, {<<>>}, MaxPersonal)

GetPersonal ==
    /\ loaded
    /\ call.op = "none"
    /\ \E u \in Users, n \in NRange :
          call' = [op |-> "personal", user_id |-> u, track_ids |-> <<>>, n |-> n,
                   list |-> get_personal_recommendations(u, n), strategy |-> ""]
    /\ UNCHANGED <<personal_recs, similar_tracks, top_popular, tieRank, loaded,
                   pc, req, frame, resp>>

NextPersonal == LoadPersonal \/ GetPersonal \/ Return

SpecPersonal == Init /\ [][NextPersonal]_vars

LoadSimilar ==
    LoadFrom({<<>>}, SeqsUpTo(SimilarRows, MaxSimilar), {<<>>}, MaxSimilar)

GetSimilar ==
    /\ loaded
    /\ call.op = "none"
    /\ \E ts \in SeqsUpTo(Tracks, MaxSeeds), n \in CountRange :
          call' = [op |-> "similar", user_id |-> "", track_ids |-> ts, n |-> n,
                   list |-> get_similar_tracks(ts, n), strategy |-> ""]
    /\ UNCHANGED <<personal_recs, similar_tracks, top_popular, tieRank, loaded,
                   pc, req, frame, resp>>

NextSimilar == LoadSimilar \/ GetSimilar \/ Return

SpecSimilar == Init /\ [][NextSimilar]_vars

\* --------------------------------------------------- concurrent handlers
\* the working lists kept on the engine, one copy for all invocations
FrameShared(w) == 1

\* Each invocation of mix_recommendations has its own local variables.
Frame(w) == w

LoadSnapshot ==
    LoadFrom(SeqsUpTo(ConcPersonalRows, MaxConcRows),
             SeqsUpTo(ConcSimilarRows, MaxConcRows),
             SeqsUpTo(ConcTracks, MaxConcRows), MaxConcRows)

shared == <<personal_recs, similar_tracks, top_popular, tieRank, loaded, call>>

\* a request arrives at an idle handler
Accept(w) ==
    /\ loaded
    /\ pc[w] = "idle"
    /\ \E u \in ConcUsers, h \in SeqsUpTo(ConcTracks, 1), n \in 1..MaxN :
          req' = [req EXCEPT ![w] =
                    [user_id |-> u, online_history |-> h, n_recommendations |-> n]]
    /\ pc' = [pc EXCEPT ![w] = "personal"]
    /\ UNCHANGED <<shared, frame, resp>>

StepPersonal(w) ==
    /\ pc[w] = "personal"
    /\ frame' = [frame EXCEPT ![Frame(w)].personal =
            get_personal_recommendations(req[w].user_id, req[w].n_recommendations)]
    /\ pc' = [pc EXCEPT ![w] = "similar"]
    /\ UNCHANGED <<shared, req, resp>>

StepSimilar(w) ==
    /\ pc[w] = "similar"
    /\ frame' = [frame EXCEPT ![Frame(w)].similar_online =
            get_similar_tracks(req[w].online_history, N_PER_TRACK)]
    /\ pc' = [pc EXCEPT ![w] = "popular"]
    /\ UNCHANGED <<shared, req, resp>>

StepPopular(w) ==
    /\ pc[w] = "popular"
    /\ frame' = [frame EXCEPT ![Frame(w)].popular =
            get_top_popular(req[w].n_recommendations * 2)]
    /\ pc' = [pc EXCEPT ![w] = "merge"]
    /\ UNCHANGED <<shared, req, resp>>

StepMerge(w) ==
    /\ pc[w] = "merge"
    /\ LET f == frame[Frame(w)]
       IN  frame' = [frame EXCEPT ![Frame(w)].all_recommendations =
              WithPopular(Priority(f.personal, f.similar_online, req[w].online_history),
                          f.popular, req[w].n_recommendations)]
    /\ pc' = [pc EXCEPT ![w] = "unique"]
    /\ UNCHANGED <<shared, req, resp>>

StepUnique(w) ==
    /\ pc[w] = "unique"
    /\ frame' = [frame EXCEPT ![Frame(w)].unique_recommendations =
            Unique(frame[Frame(w)].all_recommendations)]
    /\ pc' = [pc EXCEPT ![w] = "return"]
    /\ UNCHANGED <<shared, req, resp>>

StepReturn(w) ==
    /\ pc[w] = "return"
    /\ LET f == frame[Frame(w)]
           final_recommendations ==
              NotInHistory(f.unique_recommendations, req[w].online_history)
       IN  resp' = [resp EXCEPT ![w] =
              [list |-> SliceTo(final_recommendations, req[w].n_recommendations),
               strategy |-> Strategy(req[w].online_history, f.personal)]]
    /\ pc' = [pc EXCEPT ![w] = "done"]
    /\ UNCHANGED <<shared, req, frame>>

\* the handler sends the response; the frame of the call is gone
Reply(w) ==
    /\ pc[w] = "done"
    /\ pc' = [pc EXCEPT ![w] = "idle"]
    /\ req' = [req EXCEPT ![w] = NoReq]
    /\ resp' = [resp EXCEPT ![w] = NoResp]
    /\ frame' = [frame EXCEPT ![Frame(w)] = NoFrame]
    /\ UNCHANGED shared

NextConc ==
    \/ LoadSnapshot
    \/ \E w \in Workers :
          \/ Accept(w)
          \/ StepPersonal(w)
          \/ StepSimilar(w)
          \/ StepPopular(w)
          \/ StepMerge(w)
          \/ StepUnique(w)
          \/ StepReturn(w)
          \/ Reply(w)

SpecConc == Init /\ [][NextConc]_vars

\* ================================================================ claims
IsMix == call.op = "mix"
\* what the lookups gave the mix call that has just returned
CallPersonal == get_personal_recommendations(call.user_id, call.n)
CallSimilar == get_similar_tracks(call.track_ids, N_PER_TRACK)
CallPopular == get_top_popular(call.n * 2)
History == Range(call.track_ids)
FirstIdx(s, t) == CHOOSE i \in DOMAIN s : s[i] = t /\ \A j \in 1..(i - 1) : s[j] # t
\* s can be read off q from left to right
RECURSIVE IsSubsequence(_, _)
IsSubsequence(s, q) ==
    IF s = <<>> THEN TRUE
    ELSE IF q = <<>> THEN FALSE
    ELSE IF Head(s) = Head(q) THEN IsSubsequence(Tail(s), Tail(q))
    ELSE IsSubsequence(s, Tail(q))

\* C1 (as claimed): for every integer n_recommendations, negative ones
\* included, the list returned by mix has at most n_recommendations entries.
C1_LengthBoundEveryInteger == IsMix => Len(call.list) <= call.n

\* C1 (amended): for every n_recommendations >= 0 the list returned by mix has
\* at most n_recommendations entries; it is empty for n_recommendations = 0.
C1_LengthBound == (IsMix /\ call.n >= 0) => Len(call.list) <= call.n

\* the cut took effect: more tracks were on offer than were asked for
C1_Witness ==
    /\ IsMix /\ call.n = 1 /\ Len(call.list) = 1
    /\ Cardinality(Range(CallPopular) \ History) >= 2

\* C2: with no personal and no similar-online tracks and at least
\* n_recommendations popularity rows outside online_history, the list has
\* exactly n_recommendations entries, in popularity-table order. Read in the
\* claim's favour: n_recommendations >= 0 is a count, and rows that repeat a
\* track_id count once.
C2_FallbackComplete ==
    (/\ IsMix /\ call.n >= 0
     /\ CallPersonal = <<>> /\ CallSimilar = <<>>
     /\ Cardinality(Range(top_popular) \ History) >= call.n)
    => /\ Len(call.list) = call.n
       /\ IsSubsequence(call.list, top_popular)

\* the tracks the three sources hold for this request
Available ==
    Range(top_popular)
    \cup {personal_recs[i].track_id :
            i \in {j \in DOMAIN personal_recs : personal_recs[j].user_id = call.user_id}}
    \cup {similar_tracks[i].similar_track_id :
            i \in {j \in DOMAIN similar_tracks : similar_tracks[j].track_id \in History}}

\* C3: a list shorter than n_recommendations means the sources are exhausted:
\* every track of the popularity table, of the user's personal rows and of the
\* similar tracks of the seeds is in online_history or in the list.
C3_ShortOnlyIfExhausted ==
    (IsMix /\ Len(call.list) < call.n) => (Available \ History) \subseteq Range(call.list)

\* C4: no track of the list returned by mix is in online_history.
C4_NoHistoryLeak == IsMix => Range(call.list) \cap History = {}

\* a track of the history was on offer and others were returned
C4_Witness ==
    /\ IsMix /\ call.list # <<>>
    /\ History \cap (Range(CallPersonal) \cup Range(CallSimilar) \cup Range(CallPopular)) # {}

C6_StrategyLabel ==
    IsMix =>
       /\ (call.track_ids # <<>> /\ CallPersonal # <<>>)
             => call.strategy = "online_history + personal"
       /\ (call.track_ids # <<>> /\ CallPersonal = <<>>)
             => call.strategy = "online_history + top_popular"
       /\ (call.track_ids = <<>> /\ CallPersonal # <<>>) => call.strategy = "personal_only"
       /\ (call.track_ids = <<>> /\ CallPersonal = <<>>) => call.strategy = "top_popular_only"
       /\ (/\ personal_recs = <<>> /\ similar_tracks = <<>> /\ top_popular = <<>>
           /\ call.track_ids = <<>>)
             => (call.list = <<>> /\ call.strategy = "top_popular_only")

\* the label names sources of which nothing is left in the list
C6_Witness ==
    /\ IsMix /\ call.strategy = "online_history + personal"
    /\ call.list # <<>>
    /\ Range(call.list) \cap (Range(CallPersonal) \cup Range(CallSimilar)) = {}

\* the three sources in priority order
Sources ==
    CallPersonal \o (IF call.track_ids # <<>> THEN CallSimilar ELSE <<>>) \o CallPopular
Tier(t) ==
    IF t \in Range(CallPersonal) THEN 1
    ELSE IF call.track_ids # <<>> /\ t \in Range(CallSimilar) THEN 2
    ELSE 3

\* C7: in the list, personal tracks come before tracks that are only similar
\* or popular, similar tracks before tracks that are only popular; every track
\* is there once, in the order of first occurrences in personal, then
\* similar-online, then popularity.
C7_PriorityOrder ==
    IsMix =>
       /\ Range(call.list) \subseteq Range(Sources)
       /\ \A i, j \in DOMAIN call.list :
             i < j => /\ Tier(call.list[i]) <= Tier(call.list[j])
                      /\ FirstIdx(Sources, call.list[i]) < FirstIdx(Sources, call.list[j])

\* a personal track is returned ahead of a track that is similar-online only
C7_Witness ==
    /\ IsMix /\ Len(call.list) = 2
    /\ Tier(call.list[1]) = 1
    /\ Tier(call.list[2]) = 2

\* C8: under any interleaving every invocation returns what the same call
\* returns run alone, equal requests get equal responses, and no step changes
\* a lookup table.
C8_AloneResult ==
    \A w \in Workers :
       pc[w] = "done" =>
          resp[w] = mix_recommendations(req[w].user_id, req[w].online_history,
                                        req[w].n_recommendations)
C8_SameRequestSameResponse ==
    \A v, w \in Workers :
       (pc[v] = "done" /\ pc[w] = "done" /\ req[v] = req[w]) => resp[v] = resp[w]
C8_ConcurrentPure ==
    /\ [](C8_AloneResult /\ C8_SameRequestSameResponse)
    /\ [][loaded => (tables' = tables /\ tieRank' = tieRank)]_vars

\* one invocation has returned a non-empty list while another, for a different
\* request, is in the middle of its own
C8_Witness ==
    /\ pc[1] = "done" /\ pc[2] = "unique"
    /\ req[1] # req[2]
    /\ resp[1].list # <<>>
    /\ frame[2].all_recommendations # <<>>
    /\ frame[2].all_recommendations # frame[1].all_recommendations

\* the user's rows in stable order: score descending, equal scores in table order
StableOrder(user_id) ==
    LET rows == {i \in DOMAIN personal_recs : personal_recs[i].user_id = user_id}
        Before(i, j) == \/ personal_recs[i].score > personal_recs[j].score
                        \/ personal_recs[i].score = personal_recs[j].score /\ i < j
    IN  [k \in 1..Cardinality(rows) |->
            personal_recs[CHOOSE i \in rows :
                Cardinality({j \in rows : Before(j, i)}) = k - 1].track_id]

\* C9: get_personal_recommendations(user_id, n) returns the track_ids of the
\* first n of the user's rows by score descending, rows of equal score in
\* table order; the empty list when the user has no rows (stated for n >= 0).
C9_PersonalStable ==
    (call.op = "personal" /\ call.n >= 0) =>
        call.list = SubSeq(StableOrder(call.user_id), 1,
                           Min(call.n, Len(StableOrder(call.user_id))))

SeedRows(seed) == {i \in DOMAIN similar_tracks : similar_tracks[i].track_id = seed}
\* seg is the similar_track_ids of the first n rows of seed in some order of
\* its rows by similarity_score descending
IsTopCut(seg, seed, n) ==
    /\ Len(seg) = Min(n, Cardinality(SeedRows(seed)))
    /\ \E pick \in [1..Len(seg) -> SeedRows(seed)] :
          /\ \A a, b \in 1..Len(seg) :
                a < b => /\ pick[a] # pick[b]
                         /\ similar_tracks[pick[a]].similarity_score
                              >= similar_tracks[pick[b]].similarity_score
          /\ \A a \in 1..Len(seg) :
                /\ seg[a] = similar_tracks[pick[a]].similar_track_id
                /\ \A r \in SeedRows(seed) \ Range(pick) :
                      similar_tracks[r].similarity_score
                         <= similar_tracks[pick[a]].similarity_score
\* list is such cuts, one per seed, in seed order
RECURSIVE IsConcatOfCuts(_, _, _)
IsConcatOfCuts(list, seeds, n) ==
    IF seeds = <<>> THEN list = <<>>
    ELSE \E k \in 0..Len(list) :
            /\ IsTopCut(SubSeq(list, 1, k), Head(seeds), n)
            /\ IsConcatOfCuts(SubSeq(list, k + 1, Len(list)), Tail(seeds), n)

\* C10: get_similar_tracks(track_ids, n_per_track) returns, seed after seed in
\* the order given, each seed's first n_per_track similar tracks by
\* similarity_score descending; a seed without rows adds nothing and the seeds
\* after it still add theirs; at most len(track_ids) * n_per_track tracks.
C10_SimilarTracks ==
    call.op = "similar" =>
       /\ IsConcatOfCuts(call.list, call.track_ids, call.n)
       /\ Len(call.list) <= Len(call.track_ids) * call.n

\* a seed without rows is followed by a seed whose rows are cut to n_per_track
C10_Witness ==
    /\ call.op = "similar" /\ Len(call.track_ids) = 2 /\ call.n = 1
    /\ SeedRows(call.track_ids[1]) = {}
    /\ Cardinality(SeedRows(call.track_ids[2])) = 2
    /\ Len(call.list) = 1
    /\ \E i, j \in SeedRows(call.track_ids[2]) :
          similar_tracks[i].similarity_score # similar_tracks[j].similarity_score
====
